---- MODULE Spec2Model ----
(***************************************************************************)
(* A model of Samvartha.py: the command interpreter's four strategies,     *)
(* the molecular data fetcher and manipulator, the virtual world with its  *)
(* self-upgrade loop, the password-gated main, and the chained resolver    *)
(* that the specification describes.                                       *)
(***************************************************************************)
EXTENDS Integers, Sequences, FiniteSets, TLC

VARIABLES
    \* CommandInterpreter: one call of one strategy
    command,        \* the command argument, a sequence of characters
    strategy,       \* which interpret_with_* method has been called ("none" before)
    faultAt,        \* the backend call that faults in this call ("none": no fault)
    backendOut,     \* what the generative backends produce when they do not fault
    result,         \* the value the method returned
    raised,         \* TRUE when the method raised to its caller
    log,            \* the logging records written, in order
    invoked,        \* the backend calls made, in order, each with its input
    \* MolecularManipulator / MolecularDataFetcher
    molOp,          \* the last call: method, arguments and the HTTP outcome it met
    molResult,      \* the value the last call returned
    molRaised,      \* TRUE when the last call raised to its caller
    fetchCount,     \* number of requests.get calls made so far
    molLog,         \* the logging records of the last call
    molInvoked,     \* the requests.get calls the last call made
    \* main / VirtualWorld
    pc,             \* position of main
    password,       \* what input() returned
    output,         \* lines printed
    worldCreated,   \* VirtualWorld() has been constructed
    experiences,    \* VirtualWorld.experiences
    history,        \* every simulate_task call so far: its argument and return value
    worldLog,       \* the logging records of self_upgrade and simulate_task
    clock,          \* time.time()
    start_time,     \* self_upgrade's start_time
    \* ChainedResolver
    cache,          \* ResolutionCache: query -> resolved value or NoValue
    calls,          \* per-backend invocation counter
    lastOp          \* the last resolver operation, its inputs and its return value

interpVars == <<command, strategy, faultAt, backendOut, result, raised, log, invoked>>
molVars == <<molOp, molResult, molRaised, fetchCount, molLog, molInvoked>>
worldVars == <<pc, password, output, worldCreated, experiences, history, worldLog, clock,
              start_time>>
resolverVars == <<cache, calls, lastOp>>
vars == <<interpVars, molVars, worldVars, resolverVars>>

-----------------------------------------------------------------------------
(* Python values and control flow *)

PyNone == [kind |-> "None", val |-> ""]
PyStr(s) == [kind |-> "str", val |-> s]
PyDoc(s) == [kind |-> "Doc", val |-> s]
PyTagged(s) == [kind |-> "tagged", val |-> s]

Return(v, logs, made) == [exc |-> FALSE, val |-> v, err |-> "", log |-> logs, invoked |-> made]
Raise(e, logs, made) == [exc |-> TRUE, val |-> PyNone, err |-> e, log |-> logs, invoked |-> made]

Info(msg) == [level |-> "INFO", msg |-> msg]
Error(msg) == [level |-> "ERROR", msg |-> msg]

\* try: body / except Exception as e: logging.error(f"{prefix}: {e}"); return fallback
TryExceptReraise(body, prefix, fallback) ==
    [ret |-> body.val, raised |-> body.exc, log |-> body.log, invoked |-> body.invoked]

TryExcept(body, prefix, fallback) ==
    IF body.exc
    THEN [ret |-> fallback, raised |-> FALSE,
          log |-> Append(body.log, Error(prefix \o ": " \o body.err)),
          invoked |-> body.invoked]
    ELSE [ret |-> body.val, raised |-> FALSE, log |-> body.log, invoked |-> body.invoked]

-----------------------------------------------------------------------------
(* Strings as sequences of characters *)

UpperCase == <<"A","B","C","D","E","F","G","H","I","J","K","L","M",
               "N","O","P","Q","R","S","T","U","V","W","X","Y","Z">>
LowerCase == <<"a","b","c","d","e","f","g","h","i","j","k","l","m",
               "n","o","p","q","r","s","t","u","v","w","x","y","z">>
\* A character is written as itself; a character outside ASCII is written as its
\* code point: LongS is U+017F (LATIN SMALL LETTER LONG S), ArabicFour is U+0664
\* (ARABIC-INDIC DIGIT FOUR).
LongS == "U+017F"
ArabicFour == "U+0664"

\* what \d matches in a str pattern: every Unicode decimal digit; ArabicFour
\* stands for the ones outside ASCII
Digits == {"0","1","2","3","4","5","6","7","8","9", ArabicFour}

LowerChar(c) ==
    IF \E i \in 1..Len(UpperCase) : UpperCase[i] = c
    THEN LowerCase[CHOOSE i \in 1..Len(UpperCase) : UpperCase[i] = c]
    ELSE c

\* str.lower()
Lower(s) == [i \in 1..Len(s) |-> LowerChar(s[i])]

\* the character a literal letter of a pattern is compared with under
\* re.IGNORECASE: beside the two cases of a letter, LongS matches "s"
FoldChar(c) == IF c = LongS THEN "s" ELSE LowerChar(c)

Fold(s) == [i \in 1..Len(s) |-> FoldChar(s[i])]

IsDigit(c) == c \in Digits

RECURSIVE Join(_)
Join(s) == IF s = <<>> THEN "" ELSE Head(s) \o Join(Tail(s))

RECURSIVE Flatten(_)
Flatten(ss) == IF ss = <<>> THEN <<>> ELSE Head(ss) \o Flatten(Tail(ss))

\* the literal lit occurs in s at position i
HasAt(s, i, lit) ==
    /\ i >= 1
    /\ i + Len(lit) - 1 <= Len(s)
    /\ \A k \in 1..Len(lit) : s[i + k - 1] = lit[k]

\* lit in s
Contains(s, lit) == \E i \in 1..(Len(s) + 1) : HasAt(s, i, lit)

PLAY == <<"p","l","a","y">>
SONG_ == <<"s","o","n","g"," ">>
PAUSE == <<"p","a","u","s","e">>

-----------------------------------------------------------------------------
(* CommandInterpreter.interpret_with_regex *)

\* re.search(r"play.*song (\d+)", s, re.IGNORECASE) is not None
\* ("." matches any character but a newline)
SearchPlaySong(s) ==
    LET l == Fold(s)
    IN  \E i \in 1..Len(s), j \in 1..Len(s) :
        /\ HasAt(l, i, PLAY)
        /\ j >= i + Len(PLAY)
        /\ HasAt(l, j, SONG_)
        /\ j + Len(SONG_) <= Len(s)
        /\ IsDigit(s[j + Len(SONG_)])
        /\ \A k \in (i + Len(PLAY))..(j - 1) : s[k] # "\n"

\* positions where r"song (\d+)" matches s (no flags: case-sensitive)
SongMatches(s) ==
    {j \in 1..Len(s) : /\ HasAt(s, j, SONG_)
                       /\ j + Len(SONG_) <= Len(s)
                       /\ IsDigit(s[j + Len(SONG_)])}

SongMatchesIgnoreCase(s) ==
    {j \in 1..Len(s) : /\ HasAt(Fold(s), j, SONG_)
                       /\ j + Len(SONG_) <= Len(s)
                       /\ IsDigit(s[j + Len(SONG_)])}

Min(S) == CHOOSE x \in S : \A y \in S : x <= y

\* the digits (\d+) captures in a match that starts at j: the longest run
DigitRun(s, j) ==
    LET first == j + Len(SONG_)
        last == CHOOSE e \in first..Len(s) :
                    /\ \A k \in first..e : IsDigit(s[k])
                    /\ (e = Len(s) \/ ~IsDigit(s[e + 1]))
    IN  SubSeq(s, first, last)

\* re.search(r"song (\d+)", s): the leftmost match's group(1), or None
SearchSong(s) ==
    IF SongMatches(s) = {} THEN PyNone
    ELSE PyStr(Join(DigitRun(s, Min(SongMatches(s)))))

AttributeErrorGroup == "'NoneType' object has no attribute 'group'"

\* the body of the try block
RegexBody(cmd) ==
    IF SearchPlaySong(cmd)
    THEN IF SearchSong(cmd) = PyNone
         THEN Raise(AttributeErrorGroup, <<>>, <<>>)
         ELSE Return(PyStr("Playing song number " \o SearchSong(cmd).val), <<>>, <<>>)
    ELSE IF Contains(Lower(cmd), PAUSE)
         THEN Return(PyStr("Pausing the song"), <<>>, <<>>)
         ELSE Return(PyStr("Command not recognized"), <<>>, <<>>)

interpret_with_regex(cmd) ==
    TryExcept(RegexBody(cmd), "Error in regex interpretation", PyStr("Error processing command"))

-----------------------------------------------------------------------------
(* CommandInterpreter.interpret_with_spacy / interpret_with_nltk *)

Call(fn, arg) == [call |-> fn, arg |-> arg]

RECURSIVE TokenLogs(_)
TokenLogs(tokens) ==
    IF tokens = <<>> THEN <<>>
    ELSE <<Info("Token: " \o Head(tokens).text \o ", POS: " \o Head(tokens).pos
                \o ", Lemma: " \o Head(tokens).lemma)>> \o TokenLogs(Tail(tokens))

RECURSIVE TaggedItems(_)
TaggedItems(tokens) ==
    IF tokens = <<>> THEN ""
    ELSE "('" \o Head(tokens).text \o "', '" \o Head(tokens).pos \o "')"
         \o (IF Len(tokens) > 1 THEN ", " ELSE "") \o TaggedItems(Tail(tokens))

\* str() of a list of (token, tag) pairs
TaggedRepr(tokens) == "[" \o TaggedItems(tokens) \o "]"

SpacyBody(cmd, fault, out) ==
    IF fault = "nlp"
    THEN Raise("nlp", <<>>, <<Call("nlp", Join(cmd))>>)
    ELSE Return(PyDoc(Join(cmd)), TokenLogs(out.tokens), <<Call("nlp", Join(cmd))>>)

interpret_with_spacy(cmd, fault, out) ==
    TryExcept(SpacyBody(cmd, fault, out), "Error in spaCy interpretation", PyNone)

NltkBody(cmd, fault, out) ==
    IF fault = "word_tokenize"
    THEN Raise("word_tokenize", <<>>, <<Call("word_tokenize", Join(cmd))>>)
    ELSE IF fault = "pos_tag"
    THEN Raise("pos_tag", <<>>, <<Call("word_tokenize", Join(cmd)), Call("pos_tag", "tokens")>>)
    ELSE Return(PyTagged(TaggedRepr(out.tokens)),
                <<Info("NLTK tagged tokens: " \o TaggedRepr(out.tokens))>>,
                <<Call("word_tokenize", Join(cmd)), Call("pos_tag", "tokens")>>)

interpret_with_nltk(cmd, fault, out) ==
    TryExcept(NltkBody(cmd, fault, out), "Error in NLTK interpretation", PyNone)

-----------------------------------------------------------------------------
(* CommandInterpreter.interpret_with_bart_t5 *)

\* the six backend calls of the two stages, in program order
BartT5Calls(cmd, out) ==
    << Call("bart_tokenizer", Join(cmd)),
       Call("bart_model.generate", "input_ids"),
       Call("bart_tokenizer.decode", "summary_ids"),
       Call("t5_tokenizer", "Extract task: " \o out.paraphrase),
       Call("t5_model.generate", "input_ids"),
       Call("t5_tokenizer.decode", "task_ids") >>

ParaphraseCalls == {"bart_tokenizer", "bart_model.generate", "bart_tokenizer.decode"}
ExtractionCalls == {"t5_tokenizer", "t5_model.generate", "t5_tokenizer.decode"}

CallIndex(cs, name) == CHOOSE i \in 1..Len(cs) : cs[i].call = name

\* a mutant: a fault of the paraphrase stage is swallowed and the extraction
\* stage goes on
BartT5BodyContinue(cmd, fault, out) ==
    LET cs == BartT5Calls(cmd, out)
        start == Info("Interpreting command with BART and T5: " \o Join(cmd))
        para == Info("Paraphrased Command: " \o out.paraphrase)
        task == Info("Extracted Task: " \o out.task)
    IN  IF fault = "none"
        THEN Return(PyStr(out.task), <<start, para, task>>, cs)
        ELSE IF fault \in ParaphraseCalls
        THEN Return(PyStr(out.task), <<start, task>>,
                    SubSeq(cs, 1, CallIndex(cs, fault))
                    \o SubSeq(cs, Cardinality(ParaphraseCalls) + 1, Len(cs)))
        ELSE Raise(fault, <<start, para>>, SubSeq(cs, 1, CallIndex(cs, fault)))

\* the body of the try block: the calls are made in order up to the one that faults
BartT5Body(cmd, fault, out) ==
    LET cs == BartT5Calls(cmd, out)
        start == Info("Interpreting command with BART and T5: " \o Join(cmd))
        para == Info("Paraphrased Command: " \o out.paraphrase)
        task == Info("Extracted Task: " \o out.task)
    IN  IF fault = "none"
        THEN Return(PyStr(out.task), <<start, para, task>>, cs)
        ELSE IF fault \in ParaphraseCalls
        THEN Raise(fault, <<start>>, SubSeq(cs, 1, CallIndex(cs, fault)))
        ELSE Raise(fault, <<start, para>>, SubSeq(cs, 1, CallIndex(cs, fault)))

interpret_with_bart_t5(cmd, fault, out) ==
    TryExcept(BartT5Body(cmd, fault, out), "Error in BART/T5 interpretation", PyNone)

-----------------------------------------------------------------------------
(* The interpreter's inputs and its specification *)

MaxFrags == 3   \* a command is at most this many fragments long

Fragments ==
    << <<"p","l","a","y"," ">>, <<"P","L","A","Y"," ">>,
       <<"s","o","n","g"," ">>, <<"S","o","n","g"," ">>,
       <<"4">>, <<"4","2">>,
       <<"p","a","u","s","e">>, <<"P","a","u","s","e">>,
       <<"\n">>, <<LongS,"o","n","g"," ">>, <<ArabicFour>> >>

FragmentLists == UNION {[1..n -> 1..Len(Fragments)] : n \in 0..MaxFrags}

CommandOf(fl) == Flatten([i \in 1..Len(fl) |-> Fragments[fl[i]]])

Commands == {CommandOf(fl) : fl \in FragmentLists}

Tok(text, pos, lemma) == [text |-> text, pos |-> pos, lemma |-> lemma]
TokenLists == { <<>>,
                <<Tok("play", "VERB", "play"), Tok("songs", "NOUN", "song")>> }
Paraphrases == {"play a song"}
TaskLabels == {"play", ""}

NoOut == [tokens |-> <<>>, paraphrase |-> "", task |-> ""]

SpacyFaults == {"none", "nlp"}
NltkFaults == {"none", "word_tokenize", "pos_tag"}
BartT5Faults == {"none", "bart_tokenizer", "bart_model.generate", "bart_tokenizer.decode",
                 "t5_tokenizer", "t5_model.generate", "t5_tokenizer.decode"}

\* a backend that faults produces nothing
OutputsUnder(fault, outputs, nothing) == IF fault = "none" THEN outputs ELSE {nothing}

InterpIdle ==
    /\ strategy = "none"
    /\ faultAt = "none"
    /\ backendOut = NoOut
    /\ result = PyNone
    /\ raised = FALSE
    /\ log = <<>>
    /\ invoked = <<>>

\* the caller's view of a finished call
Finish(name, fault, out, r) ==
    /\ strategy' = name
    /\ faultAt' = fault
    /\ backendOut' = out
    /\ result' = r.ret
    /\ raised' = r.raised
    /\ log' = log \o r.log
    /\ invoked' = invoked \o r.invoked
    /\ UNCHANGED command

CallSpacy ==
    /\ strategy = "none"
    /\ \E fault \in SpacyFaults : \E toks \in OutputsUnder(fault, TokenLists, <<>>) :
        LET out == [NoOut EXCEPT !.tokens = toks]
        IN  Finish("spacy", fault, out, interpret_with_spacy(command, fault, out))

CallNltk ==
    /\ strategy = "none"
    /\ \E fault \in NltkFaults : \E toks \in OutputsUnder(fault, TokenLists, <<>>) :
        LET out == [NoOut EXCEPT !.tokens = toks]
        IN  Finish("nltk", fault, out, interpret_with_nltk(command, fault, out))

CallRegex ==
    /\ strategy = "none"
    /\ Finish("regex", "none", NoOut, interpret_with_regex(command))

CallBartT5 ==
    /\ strategy = "none"
    /\ \E fault \in BartT5Faults, p \in Paraphrases :
       \E t \in OutputsUnder(fault, TaskLabels, "") :
        LET out == [NoOut EXCEPT !.paraphrase = p, !.task = t]
        IN  Finish("bart_t5", fault, out, interpret_with_bart_t5(command, fault, out))

-----------------------------------------------------------------------------
(* MolecularDataFetcher and MolecularManipulator *)

PyInt(n) == [kind |-> "int", val |-> n]
PyList(xs) == [kind |-> "list", val |-> xs]
\* a dict is the sequence of its items, in insertion order
Item(key, value) == [key |-> key, value |-> value]
PyDict(items) == [kind |-> "dict", val |-> items]
EmptyDict == PyDict(<<>>)

\* type(v).__name__
TypeName(v) == IF v.kind = "None" THEN "NoneType" ELSE v.kind

\* bool(v)
Truthy(v) ==
    CASE v.kind = "dict" -> Len(v.val) > 0
      [] v.kind = "list" -> Len(v.val) > 0
      [] v.kind = "str" -> v.val # ""
      [] v.kind = "int" -> v.val # 0
      [] OTHER -> FALSE

HasKey(d, key) == \E i \in 1..Len(d.val) : d.val[i].key = key
Get(d, key) == d.val[CHOOSE i \in 1..Len(d.val) : d.val[i].key = key].value

\* the strings of the JSON bodies, as characters
JsonStrings == { <<>>, <<"w","a","t","e","r">>, <<"9","6","2">> }
CharsOf(s) == CHOOSE cs \in JsonStrings : Join(cs) = s

\* repr(v); a string is quoted with ' (none of the strings formatted this way
\* holds a quote or a backslash)
RECURSIVE Repr(_)
RECURSIVE ReprItems(_)
RECURSIVE ReprPairs(_)
ReprItems(xs) ==
    IF xs = <<>> THEN ""
    ELSE Repr(Head(xs)) \o (IF Len(xs) > 1 THEN ", " ELSE "") \o ReprItems(Tail(xs))
ReprPairs(items) ==
    IF items = <<>> THEN ""
    ELSE "'" \o Head(items).key \o "': " \o Repr(Head(items).value)
         \o (IF Len(items) > 1 THEN ", " ELSE "") \o ReprPairs(Tail(items))
Repr(v) ==
    CASE v.kind = "int" -> ToString(v.val)
      [] v.kind = "str" -> "'" \o v.val \o "'"
      [] v.kind = "list" -> "[" \o ReprItems(v.val) \o "]"
      [] v.kind = "dict" -> "{" \o ReprPairs(v.val) \o "}"
      [] OTHER -> "None"

\* str(v), what an f-string puts for {v}
Str(v) == IF v.kind = "str" THEN v.val ELSE Repr(v)

pubchem_base_url == "https://pubchem.ncbi.nlm.nih.gov/rest/pug/compound/name"

\* data['PC_Compounds']: the value, or the exception's text
SubscriptKey(data, key) ==
    CASE data.kind = "dict" ->
            IF HasKey(data, key) THEN [exc |-> FALSE, val |-> Get(data, key), err |-> ""]
            ELSE [exc |-> TRUE, val |-> PyNone, err |-> "'" \o key \o "'"]
      [] data.kind = "list" ->
            [exc |-> TRUE, val |-> PyNone,
             err |-> "list indices must be integers or slices, not str"]
      [] data.kind = "str" ->
            [exc |-> TRUE, val |-> PyNone,
             err |-> "string indices must be integers, not 'str'"]
      [] OTHER ->
            [exc |-> TRUE, val |-> PyNone,
             err |-> "'" \o TypeName(data) \o "' object is not subscriptable"]

\* v[0]: the value, or the exception's text
SubscriptZero(v) ==
    CASE v.kind = "list" ->
            IF Len(v.val) > 0 THEN [exc |-> FALSE, val |-> v.val[1], err |-> ""]
            ELSE [exc |-> TRUE, val |-> PyNone, err |-> "list index out of range"]
      [] v.kind = "str" ->
            IF v.val # "" THEN [exc |-> FALSE, val |-> PyStr(CharsOf(v.val)[1]), err |-> ""]
            ELSE [exc |-> TRUE, val |-> PyNone, err |-> "string index out of range"]
      [] v.kind = "dict" ->
            [exc |-> TRUE, val |-> PyNone, err |-> "0"]
      [] OTHER ->
            [exc |-> TRUE, val |-> PyNone,
             err |-> "'" \o TypeName(v) \o "' object is not subscriptable"]

\* what the try block of fetch_molecular_data does with the response http; a
\* response that is no JSON answer carries the text of the exception raised
FetchBody(compound_name, http) ==
    LET start == <<Info("Fetching molecular data for: " \o compound_name)>>
        get == <<Call("requests.get", pubchem_base_url \o "/" \o compound_name \o "/JSON")>>
        compounds == SubscriptKey(http.data, "PC_Compounds")
        first == SubscriptZero(compounds.val)
    IN  IF http.status # "ok" THEN Raise(http.message, start, get)
        ELSE IF compounds.exc THEN Raise(compounds.err, start, get)
        ELSE IF first.exc THEN Raise(first.err, start, get)
        ELSE Return(first.val, start, get)

fetch_molecular_data(compound_name, http) ==
    LET body == FetchBody(compound_name, http)
    IN  IF body.exc /\ http.status = "http_error"
        THEN TryExcept(body, "HTTP error occurred", EmptyDict)
        ELSE TryExcept(body, "Error fetching molecular data", EmptyDict)

break_down_object(object_description) ==
    TryExcept(Return(PyDict(<<Item("H", PyInt(2)), Item("O", PyInt(1))>>),
                     <<Info("Breaking down " \o object_description
                            \o " into molecular components.")>>, <<>>),
              "Error breaking down object", EmptyDict)

NoGet(v) == "'" \o TypeName(v) \o "' object has no attribute 'get'"

CombineBody(compound_name, http) ==
    LET f == fetch_molecular_data(compound_name, http)
        molecular_data == f.ret
        fetched == Append(f.log, Info("Fetched data: " \o Str(molecular_data)))
        atoms == IF HasKey(molecular_data, "atoms") THEN Get(molecular_data, "atoms")
                 ELSE EmptyDict
        molecular_formula == IF HasKey(atoms, "element") THEN Get(atoms, "element")
                             ELSE PyList(<<>>)
    IN  IF f.raised THEN Raise("propagated", f.log, f.invoked)
        ELSE IF ~Truthy(molecular_data)
        THEN Return(PyStr("Could not fetch molecular data for '" \o compound_name \o "'"),
                    f.log, f.invoked)
        ELSE IF molecular_data.kind # "dict"
        THEN Raise(NoGet(molecular_data), fetched, f.invoked)
        ELSE IF atoms.kind # "dict"
        THEN Raise(NoGet(atoms), fetched, f.invoked)
        ELSE Return(PyStr("Combined elements into: " \o Str(molecular_formula)),
                    fetched, f.invoked)

combine_elements(compound_name, http) ==
    TryExcept(CombineBody(compound_name, http), "Error combining elements",
              PyStr("Error combining elements"))

destroy_object(object_description) ==
    TryExcept(Return(PyStr(object_description \o " has been destroyed."),
                     <<Info("Destroying " \o object_description \o ".")>>, <<>>),
              "Error destroying object", PyStr("Error destroying object"))

\* a call that propagates what its callee raised
Propagate(r, v) == [ret |-> IF r.raised THEN PyNone ELSE v, raised |-> r.raised,
                    log |-> r.log, invoked |-> r.invoked]

manipulate_molecules(action, object_description, http) ==
    IF action = "break down"
    THEN LET r == break_down_object(object_description)
         IN  Propagate(r, PyStr("Broke down '" \o object_description
                                \o "' into molecules: " \o Str(r.ret)))
    ELSE IF action = "create"
    THEN LET r == combine_elements(object_description, http)
         IN  Propagate(r, PyStr("Created new object: '" \o Str(r.ret) \o "'"))
    ELSE IF action = "destroy"
    THEN destroy_object(object_description)
    ELSE [ret |-> PyStr("Action '" \o action \o "' is not recognized."), raised |-> FALSE,
          log |-> <<>>, invoked |-> <<>>]

-----------------------------------------------------------------------------
(* The molecular calls' inputs and their specification *)

MaxFetches == 2   \* requests.get calls in one behaviour

IntList(ns) == PyList([i \in 1..Len(ns) |-> PyInt(ns[i])])

Water == PyDict(<<Item("atoms", PyDict(<<Item("aid", IntList(<<1, 2, 3>>)),
                                         Item("element", IntList(<<8, 1, 1>>))>>))>>)

Failed(status, message) == [status |-> status, data |-> PyNone, message |-> message]
Json(data) == [status |-> "ok", data |-> data, message |-> ""]
Compounds(v) == Json(PyDict(<<Item("PC_Compounds", v)>>))

\* what the service may answer: no answer, an error status, a body that is not
\* JSON, and JSON bodies of several shapes
Responses ==
    << Failed("unreachable", "Max retries exceeded"),
       Failed("http_error", "404 Client Error: PUGREST.NotFound"),
       Failed("bad_json", "Expecting value: line 1 column 1 (char 0)"),
       Json(EmptyDict),
       Json(PyList(<<PyStr("water")>>)),
       Json(PyNone),
       Compounds(PyList(<<>>)),
       Compounds(PyStr("")),
       Compounds(PyStr("water")),
       Compounds(PyInt(0)),
       Compounds(EmptyDict),
       Compounds(PyList(<<EmptyDict>>)),
       Compounds(PyList(<<Water>>)),
       Compounds(PyList(<<PyDict(<<Item("id", PyStr("962"))>>)>>)),
       Compounds(PyList(<<PyDict(<<Item("atoms", IntList(<<8>>))>>)>>)),
       Compounds(PyList(<<PyStr("water")>>)),
       Compounds(PyList(<<PyInt(0)>>)) >>

CompoundNames == {"water", "salt"}
Actions == {"break down", "create", "destroy", "melt"}

MolIdle ==
    /\ molOp = [method |-> "none", action |-> "", arg |-> "", http |-> 0]
    /\ molResult = PyNone
    /\ molRaised = FALSE
    /\ fetchCount = 0
    /\ molLog = <<>>
    /\ molInvoked = <<>>

MolFinish(method, action, arg, h, r) ==
    /\ fetchCount + Len(r.invoked) <= MaxFetches
    /\ molOp' = [method |-> method, action |-> action, arg |-> arg, http |-> h]
    /\ molResult' = r.ret
    /\ molRaised' = r.raised
    /\ fetchCount' = fetchCount + Len(r.invoked)
    /\ molLog' = r.log
    /\ molInvoked' = r.invoked

FetchMolecularData ==
    \E name \in CompoundNames, h \in 1..Len(Responses) :
        MolFinish("fetch_molecular_data", "", name, h,
                  fetch_molecular_data(name, Responses[h]))

CombineElements ==
    \E name \in CompoundNames, h \in 1..Len(Responses) :
        MolFinish("combine_elements", "", name, h, combine_elements(name, Responses[h]))

ManipulateMolecules ==
    \E action \in Actions, name \in CompoundNames, h \in 1..Len(Responses) :
        MolFinish("manipulate_molecules", action, name, h,
                  manipulate_molecules(action, name, Responses[h]))

-----------------------------------------------------------------------------
(* VirtualWorld and main *)

MaxTasks == 3       \* simulate_task calls in one behaviour

Duration == 3600    \* main: self_upgrade(3600)
SleepSeconds == 5   \* self_upgrade: time.sleep(5)

UpgradeTasks == {"learn quantum physics", "create nanotech", "explore time travel",
                 "become limitless"}
Passwords == {"samvartha", "Samvartha", "admin", ""}

\* time.sleep(5) returns after at least 5 seconds; the process may be held up for
\* any longer time, here for the whole duration
Elapsed == {SleepSeconds, Duration}

\* An exception inside simulate_task's try block: at "info" it is raised while
\* l.144 formats and logs the task, at "append" while l.147 appends the record;
\* message is str(e).  Memory running out is one that can happen in main's loop.
NoFault == [at |-> "none", message |-> ""]
SimulateFaults == {NoFault,
                   [at |-> "info", message |-> "out of memory"],
                   [at |-> "append", message |-> "out of memory"]}

\* the try block of simulate_task; random.choice([True, False]) is the argument
\* success.  The value returned is the result, the record is appended when the
\* block does not raise.
SimulateBody(exps, task_description, success, fault) ==
    LET info == <<Info("Simulating task: " \o task_description)>>
    IN  IF fault.at = "info"
        THEN Raise(fault.message, <<>>, <<>>)
        ELSE IF exps.kind # "list"
        THEN Raise("'" \o TypeName(exps) \o "' object has no attribute 'append'", info, <<>>)
        ELSE IF fault.at = "append"
        THEN Raise(fault.message, info, <<>>)
        ELSE Return(IF success THEN "success" ELSE "failure", info, <<>>)

\* a mutant: only a successful run is recorded
SimulateTaskRecordSuccess(exps, task_description, success, fault) ==
    LET body == SimulateBody(exps, task_description, success, fault)
        r == TryExcept(body, "Error simulating task", "simulation error")
    IN  [experiences |-> IF body.exc \/ ~success
                         THEN exps
                         ELSE PyList(Append(exps.val, [task |-> task_description,
                                                       result |-> body.val])),
         ret |-> r.ret,
         log |-> r.log]

simulate_task(exps, task_description, success, fault) ==
    LET body == SimulateBody(exps, task_description, success, fault)
        r == TryExcept(body, "Error simulating task", "simulation error")
    IN  [experiences |-> IF body.exc
                         THEN exps
                         ELSE PyList(Append(exps.val, [task |-> task_description,
                                                       result |-> body.val])),
         ret |-> r.ret,
         log |-> r.log]

\* a mutant: the gate compares without regard to case
PasswordOkAnyCase(p) == p \in {"samvartha", "Samvartha"}

PasswordOk(p) == p = "samvartha"

WorldIdle ==
    /\ pc = "input"
    /\ password = ""
    /\ output = <<>>
    /\ worldCreated = FALSE
    /\ experiences = PyList(<<>>)
    /\ history = <<>>
    /\ worldLog = <<>>
    /\ clock = 0
    /\ start_time = 0

\* main up to the call of self_upgrade, and self_upgrade up to its loop
MainStart ==
    /\ pc = "input"
    /\ \E p \in Passwords :
        /\ password' = p
        /\ IF ~PasswordOk(p)
           THEN /\ output' = Append(output, "Incorrect password. Access denied.")
                /\ pc' = "returned"
                /\ UNCHANGED <<worldCreated, experiences, worldLog, start_time>>
           ELSE /\ output' = Append(output, "Access granted. Welcome!")
                /\ worldCreated' = TRUE
                /\ experiences' = PyList(<<>>)
                /\ start_time' = clock
                /\ worldLog' = Append(worldLog, Info("Starting self-upgrading process..."))
                /\ pc' = "self_upgrade"
    /\ UNCHANGED <<history, clock>>

\* one round of self_upgrade's loop
UpgradeStep ==
    /\ pc = "self_upgrade"
    /\ clock - start_time < Duration
    /\ Len(history) < MaxTasks
    /\ \E task \in UpgradeTasks, success \in BOOLEAN, fault \in SimulateFaults,
          dt \in Elapsed :
        LET r == simulate_task(experiences, task, success, fault)
        IN  /\ experiences' = r.experiences
            /\ history' = Append(history, [task |-> task, ret |-> r.ret])
            /\ worldLog' = worldLog \o <<Info("Simulating task: " \o task)>> \o r.log
                                     \o <<Info("Upgraded through task: " \o task)>>
            /\ clock' = clock + dt
    /\ UNCHANGED <<pc, password, output, worldCreated, start_time>>

\* the loop ends, self_upgrade and main return
UpgradeDone ==
    /\ pc = "self_upgrade"
    /\ clock - start_time >= Duration
    /\ pc' = "returned"
    /\ worldLog' = Append(worldLog, Info("Self-upgrading process complete. "
                                         \o "Samvartha has reached the limitless state."))
    /\ UNCHANGED <<password, output, worldCreated, experiences, history, clock, start_time>>

-----------------------------------------------------------------------------
(* ChainedResolver, ResolutionCache and registerTask *)

MaxBackendCalls == 2   \* invocations of one backend in one behaviour

Chain == <<"B1", "B2", "B3">>
Payload == <<"X", "Y", "Z">>
Queries == {"Quantum Computing", "Nanotech", ""}
Descriptions == {"explicit text"}
Outcomes == {"ok", "absent", "fault"}

Value(payload, source) == [payload |-> payload, source |-> source]
NoValue == Value("", "none")
UnresolvedMarker == Value("not found", "unresolved")
MalformedQuery == Value("", "malformed")

IsResolved(v) == v.source \in {Chain[i] : i \in 1..Len(Chain)} \cup {"explicit"}

Succeeding(outs) == {i \in 1..Len(Chain) : outs[i] = "ok"}

\* a mutant: every backend is asked and the last success is kept
ChainResultLastWins(outs) ==
    IF Succeeding(outs) = {}
    THEN [value |-> UnresolvedMarker, asked |-> 1..Len(Chain)]
    ELSE LET w == CHOOSE i \in Succeeding(outs) : \A j \in Succeeding(outs) : j <= i
         IN  [value |-> Value(Payload[w], Chain[w]), asked |-> 1..Len(Chain)]

\* the chain is walked in list order up to the first success
ChainResult(outs) ==
    IF Succeeding(outs) = {}
    THEN [value |-> UnresolvedMarker, asked |-> 1..Len(Chain)]
    ELSE LET w == Min(Succeeding(outs))
         IN  [value |-> Value(Payload[w], Chain[w]), asked |-> 1..w]

\* a mutant: the cache is not consulted
CacheHitNever(c, q) == FALSE

CacheHit(c, q) == c[q] # NoValue

ResolverIdle ==
    /\ cache = [q \in Queries |-> NoValue]
    /\ calls = [i \in 1..Len(Chain) |-> 0]
    /\ lastOp = [op |-> "none", q |-> "", outs |-> [i \in 1..Len(Chain) |-> "absent"],
                 ret |-> NoValue, hit |-> FALSE]

Resolve ==
    \E q \in Queries, outs \in [1..Len(Chain) -> Outcomes] :
        LET r == ChainResult(outs)
            hit == q # "" /\ CacheHit(cache, q)
            walk == q # "" /\ ~hit
        IN  /\ walk => \A i \in r.asked : calls[i] < MaxBackendCalls
            /\ lastOp' = [op |-> "resolve", q |-> q, outs |-> outs, hit |-> hit,
                          ret |-> IF q = "" THEN MalformedQuery
                                  ELSE IF hit THEN cache[q] ELSE r.value]
            /\ calls' = [i \in 1..Len(Chain) |->
                            IF walk /\ i \in r.asked THEN calls[i] + 1 ELSE calls[i]]
            /\ cache' = IF walk /\ IsResolved(r.value)
                        THEN [cache EXCEPT ![q] = r.value]
                        ELSE cache

RegisterTask ==
    \E q \in Queries \ {""}, d \in Descriptions :
        /\ cache' = [cache EXCEPT ![q] = Value(d, "explicit")]
        /\ lastOp' = [op |-> "register", q |-> q, outs |-> [i \in 1..Len(Chain) |-> "absent"],
                      ret |-> Value(d, "explicit"), hit |-> FALSE]
        /\ UNCHANGED calls

-----------------------------------------------------------------------------
(* Specifications *)

InitInterp ==
    /\ command \in Commands
    /\ InterpIdle /\ MolIdle /\ WorldIdle /\ ResolverIdle

NextInterp ==
    \/ CallSpacy /\ UNCHANGED <<molVars, worldVars, resolverVars>>
    \/ CallNltk /\ UNCHANGED <<molVars, worldVars, resolverVars>>
    \/ CallRegex /\ UNCHANGED <<molVars, worldVars, resolverVars>>
    \/ CallBartT5 /\ UNCHANGED <<molVars, worldVars, resolverVars>>

SpecInterp == InitInterp /\ [][NextInterp]_vars

InitMol ==
    /\ command = <<>>
    /\ InterpIdle /\ MolIdle /\ WorldIdle /\ ResolverIdle

NextMol ==
    \/ FetchMolecularData /\ UNCHANGED <<interpVars, worldVars, resolverVars>>
    \/ CombineElements /\ UNCHANGED <<interpVars, worldVars, resolverVars>>
    \/ ManipulateMolecules /\ UNCHANGED <<interpVars, worldVars, resolverVars>>

SpecMol == InitMol /\ [][NextMol]_vars

Init ==
    /\ command = <<>>
    /\ InterpIdle /\ MolIdle /\ WorldIdle /\ ResolverIdle

Next ==
    \/ MainStart /\ UNCHANGED <<interpVars, molVars, resolverVars>>
    \/ UpgradeStep /\ UNCHANGED <<interpVars, molVars, resolverVars>>
    \/ UpgradeDone /\ UNCHANGED <<interpVars, molVars, resolverVars>>

Spec == Init /\ [][Next]_vars

InitResolver ==
    /\ command = <<>>
    /\ InterpIdle /\ MolIdle /\ WorldIdle /\ ResolverIdle

NextResolver ==
    \/ Resolve /\ UNCHANGED <<interpVars, molVars, worldVars>>
    \/ RegisterTask /\ UNCHANGED <<interpVars, molVars, worldVars>>

SpecResolver == InitResolver /\ [][NextResolver]_vars

-----------------------------------------------------------------------------
(* Claims about interpret_with_regex *)

\* C1: a command that has the keywords of the play/song pattern in any mix of
\* upper and lower case gets the same result as its all-lower-case form, the play
\* intent with the number.
C1_CaseInsensitivePlay ==
    (strategy = "regex" /\ SearchPlaySong(command))
        => /\ result = interpret_with_regex(Lower(command)).ret
           /\ result \in {PyStr("Playing song number " \o Join(DigitRun(command, j))) :
                            j \in SongMatchesIgnoreCase(command)}

\* C2: every command gets exactly one of three outcomes: play with a number the
\* pattern matched, else pause when it contains "pause", else not recognized.
C2_ThreeOutcomes ==
    strategy = "regex" =>
        IF SearchPlaySong(command)
        THEN result \in {PyStr("Playing song number " \o Join(DigitRun(command, j))) :
                            j \in SongMatchesIgnoreCase(command)}
        ELSE IF Contains(Lower(command), PAUSE)
        THEN result = PyStr("Pausing the song")
        ELSE result = PyStr("Command not recognized")

\* C5: the empty command is rejected with a value other than the one an
\* unrecognised well-formed command gets.
C5_EmptyRejected ==
    (strategy = "regex" /\ command = <<>>) => result # PyStr("Command not recognized")

-----------------------------------------------------------------------------
(* Claims about the four strategies *)

LastIsError(l) == l # <<>> /\ l[Len(l)].level = "ERROR"
NoError(l) == \A i \in 1..Len(l) : l[i].level # "ERROR"

RegexResults(cmd) ==
    {PyStr("Playing song number " \o Join(DigitRun(cmd, j))) : j \in SongMatches(cmd)}
    \cup {PyStr("Pausing the song"), PyStr("Command not recognized")}

\* C3: no strategy raises to its caller; a call in which a backend faulted returns
\* the absent value (the regex strategy: its error string) and the fault is the
\* last record logged; a call without a fault returns a result and logs no error.
C3_NeverRaises ==
    strategy # "none" =>
        /\ raised = FALSE
        /\ faultAt # "none" => (result = PyNone /\ LastIsError(log))
        /\ (faultAt = "none" /\ strategy # "regex") =>
                (result.kind \in {"Doc", "tagged", "str"} /\ NoError(log))
        /\ strategy = "regex" =>
                \/ result \in RegexResults(command) /\ NoError(log)
                \/ result = PyStr("Error processing command") /\ LastIsError(log)

\* the regex strategy met a fault of its own and returned its error value
C3_Witness ==
    /\ strategy = "regex"
    /\ result = PyStr("Error processing command")
    /\ LastIsError(log)
    /\ raised = FALSE

CallsMade == {invoked[i].call : i \in 1..Len(invoked)}

\* C4: the paraphrase stage runs first and the extraction stage runs on the
\* paraphrase; a fault in the paraphrase stage gives None with no extraction call
\* made, a fault in the extraction stage gives None after the whole paraphrase stage
\* ran, and only without a fault is the extracted task label returned.
C4_TwoStages ==
    strategy = "bart_t5" =>
        LET cs == BartT5Calls(command, backendOut)
        IN  /\ Len(invoked) <= Len(cs)
            /\ invoked = SubSeq(cs, 1, Len(invoked))
            /\ faultAt \in ParaphraseCalls =>
                    (result = PyNone /\ CallsMade \cap ExtractionCalls = {})
            /\ faultAt \in ExtractionCalls =>
                    (result = PyNone /\ ParaphraseCalls \subseteq CallsMade)
            /\ faultAt = "none" =>
                    (result = PyStr(backendOut.task) /\ invoked = cs)

\* the paraphrase succeeded and the extraction stage faulted
C4_Witness ==
    /\ strategy = "bart_t5"
    /\ faultAt = "t5_model.generate"
    /\ result = PyNone
    /\ ParaphraseCalls \subseteq CallsMade

-----------------------------------------------------------------------------
(* Claims about the molecular calls *)

\* the response is a JSON object whose PC_Compounds is a list that starts with a dict
WellFormed(r) ==
    /\ r.status = "ok"
    /\ r.data.kind = "dict"
    /\ HasKey(r.data, "PC_Compounds")
    /\ Get(r.data, "PC_Compounds").kind = "list"
    /\ Len(Get(r.data, "PC_Compounds").val) > 0
    /\ Get(r.data, "PC_Compounds").val[1].kind = "dict"

Malformed(h) == ~WellFormed(Responses[h])

IsEmptyDict(v) == v.kind = "dict" /\ v.val = <<>>

CouldNotFetch(name) == "Could not fetch molecular data for '" \o name \o "'"

\* the part of C9 about raising and about which action fetches: no molecular call
\* raises, manipulate_molecules returns a string for every action, and makes one
\* request for "create" and none for any other action
C9_NoRaiseCreateFetches ==
    molOp.method # "none" =>
        /\ molRaised = FALSE
        /\ molOp.method = "manipulate_molecules" =>
                /\ molResult.kind = "str"
                /\ molOp.action = "create" => Len(molInvoked) = 1
                /\ molOp.action # "create" => molInvoked = <<>>

\* C9: no molecular call raises; on an HTTP error, an unreachable service or a
\* malformed response fetch_molecular_data returns the empty dict, combine_elements
\* then returns the could-not-fetch message and "create" a string built from it;
\* only "create" makes a request.
C9_FetchNeverRaises ==
    /\ C9_NoRaiseCreateFetches
    /\ (molOp.method = "fetch_molecular_data" /\ Malformed(molOp.http))
            => IsEmptyDict(molResult)
    /\ (molOp.method = "combine_elements" /\ Malformed(molOp.http))
            => (molResult.kind = "str" /\ molResult.val = CouldNotFetch(molOp.arg))
    /\ (molOp.method = "manipulate_molecules" /\ molOp.action = "create"
        /\ Malformed(molOp.http))
            => molResult.val = "Created new object: '" \o CouldNotFetch(molOp.arg) \o "'"

-----------------------------------------------------------------------------
(* Claims about VirtualWorld and main *)

\* the calls that returned a result
RECURSIVE Recorded(_)
Recorded(h) ==
    IF h = <<>> THEN <<>>
    ELSE IF Head(h).ret \in {"success", "failure"}
         THEN <<[task |-> Head(h).task, result |-> Head(h).ret]>> \o Recorded(Tail(h))
         ELSE Recorded(Tail(h))

\* C8 as stated: one record for every simulate_task call, in call order, with
\* the call's argument and its return value, which is "success" or "failure".
C8_OneRecordPerCall ==
    /\ Len(experiences.val) = Len(history)
    /\ \A i \in 1..Len(history) :
        /\ i <= Len(experiences.val)
        /\ experiences.val[i] = [task |-> history[i].task, result |-> history[i].ret]
        /\ history[i].ret \in {"success", "failure"}

C8_Records ==
    /\ experiences.kind = "list"
    /\ experiences.val = Recorded(history)
    /\ \A i \in 1..Len(history) :
        history[i].ret \in {"success", "failure", "simulation error"}

C8_Kept ==
    /\ Len(experiences'.val) >= Len(experiences.val)
    /\ SubSeq(experiences'.val, 1, Len(experiences.val)) = experiences.val
    /\ (Len(history') > Len(history) /\ history'[Len(history')].ret = "simulation error")
            => experiences' = experiences

\* C8: the experiences list holds one record for every simulate_task call that
\* returned "success" or "failure", in call order, with the call's argument and
\* its return value; a call in which an exception occurred returned
\* "simulation error" and added no record; a step never changes or removes a
\* record that is there.
C8_ExperiencesLog == []C8_Records /\ [][C8_Kept]_vars

\* three calls were made: a failure, a call that met an exception, a success
C8_Witness ==
    /\ Len(history) = 3
    /\ history[1].ret = "failure"
    /\ history[2].ret = "simulation error"
    /\ history[3].ret = "success"
    /\ Len(experiences.val) = 2
    /\ experiences.val[1].result = "failure"
    /\ experiences.val[2].result = "success"
    /\ \E i \in 1..Len(worldLog) : worldLog[i].level = "ERROR"

\* C10: the world exists, and tasks are simulated, only after the password
\* "samvartha" was entered; with any other password main prints the denial and
\* returns with no world, no task simulated and no experience recorded.
C10_PasswordGate ==
    /\ (worldCreated \/ pc = "self_upgrade" \/ history # <<>> \/ experiences.val # <<>>
        \/ worldLog # <<>>)
            => password = "samvartha"
    /\ (pc # "input" /\ password # "samvartha") =>
            /\ pc = "returned"
            /\ output = <<"Incorrect password. Access denied.">>
            /\ ~worldCreated
            /\ history = <<>>
            /\ experiences.val = <<>>
            /\ worldLog = <<>>

\* a password that differs only in case was denied
C10_Witness ==
    /\ password = "Samvartha"
    /\ pc = "returned"
    /\ output = <<"Incorrect password. Access denied.">>

-----------------------------------------------------------------------------
(* Claims about the chained resolver *)

C6_Step ==
    (/\ lastOp.op = "resolve"
     /\ IsResolved(lastOp.ret)
     /\ lastOp'.op = "resolve"
     /\ lastOp'.q = lastOp.q)
        => (lastOp'.ret = lastOp.ret /\ calls' = calls)

\* C6: a resolve(q) that directly follows a resolve(q) that returned a resolved
\* value returns the same value and leaves every backend's call counter as it was.
C6_CacheIdempotence == [][C6_Step]_vars

\* a resolve returned the cached value of a lower-priority backend although the
\* first backend would have succeeded this time
C6_Witness ==
    /\ lastOp.op = "resolve"
    /\ lastOp.hit
    /\ lastOp.outs[1] = "ok"
    /\ lastOp.ret.source = Chain[Len(Chain)]

C7_Step ==
    (/\ lastOp'.op = "resolve"
     /\ lastOp'.q # ""
     /\ ~lastOp'.hit
     /\ Succeeding(lastOp'.outs) # {})
        => LET w == Min(Succeeding(lastOp'.outs))
           IN  /\ lastOp'.ret = Value(Payload[w], Chain[w])
               /\ cache'[lastOp'.q] = Value(Payload[w], Chain[w])
               /\ \A i \in 1..Len(Chain) :
                    calls'[i] = IF i <= w THEN calls[i] + 1 ELSE calls[i]

\* C7: a resolve that walks the chain stores and returns the result of the first
\* backend in list order that succeeds, invokes the backends up to that one once
\* each, and invokes none after it.
C7_PriorityOrder == [][C7_Step]_vars

\* B1 and B2 would both succeed: B1's result is cached, B2 and B3 were never invoked
C7_Witness ==
    /\ lastOp.op = "resolve"
    /\ ~lastOp.hit
    /\ lastOp.outs[1] = "ok"
    /\ lastOp.outs[2] = "ok"
    /\ cache[lastOp.q] = Value(Payload[1], Chain[1])
    /\ calls[1] = 1
    /\ calls[2] = 0
    /\ calls[3] = 0

====
